---- MODULE Spec2Model ----
(***************************************************************************)
(* MULTI / EXEC / DISCARD / WATCH / UNWATCH of redis-5.0.6 (multi.c).      *)
(*                                                                         *)
(* The server runs one command at a time, so every handler is one atomic   *)
(* step.  A handler is written as an operator from a server state (the     *)
(* record built by Cur) to the server state it returns with; an action     *)
(* applies one handler to the current state and stores the result.         *)
(*                                                                         *)
(* c->db, server.loading and server.repl_slave_ro are only read by the     *)
(* code modelled here and can change between any two commands (SELECT,     *)
(* the end of loading, CONFIG SET), so each handler takes them as inputs.  *)
(***************************************************************************)
EXTENDS Integers, Sequences, FiniteSets, TLC

\* ------------------------------------------------------------------ bounds
NumClients == 2
NumDbs == 2
NumKeys == 2
MaxWatch == 2
MaxQueue == 1
MaxStored == 1
MaxDrain == 3
MaxBatch == 2

Clients == 1..NumClients
Dbs == 0..(NumDbs - 1)
Keys == 1..NumKeys

VARIABLES
    flags,           \* c->flags: the CLIENT_* bits of each client
    mstate,          \* c->mstate: commands (count is its length), cmd_flags
    watched_keys,    \* c->watched_keys: list of watchedKey {key, db}
    db_watched_keys, \* db->watched_keys: dict key -> list of clients
    key_obj,         \* the key object of each entry of db->watched_keys: its
                     \* refcount, and the client whose watchedKey points to it
    dict,            \* db->dict: the keys present in each database
    masterhost,      \* server.masterhost != NULL
    reply,           \* what the last command replied to its client
    events,          \* what the last command did, in order: the commands it
                     \* passed to call(), the frames it handed to propagate(),
                     \* the frames it put in the replication backlog
    panic,           \* the last command hit serverAssert or a NULL node
    drain,           \* c->mstate after each turn of the loop of the last EXEC
    last,            \* the last command: its name, client and inputs
    touched,         \* history: a key c watches was modified since it was watched
    rejected         \* history: a command of c's open transaction was rejected

vars == <<flags, mstate, watched_keys, db_watched_keys, key_obj, dict, masterhost,
          reply, events, panic, drain, last, touched, rejected>>

\* ------------------------------------------------------- flags and commands
CLIENT_MULTI == "CLIENT_MULTI"
CLIENT_DIRTY_CAS == "CLIENT_DIRTY_CAS"
CLIENT_DIRTY_EXEC == "CLIENT_DIRTY_EXEC"
CLIENT_MASTER == "CLIENT_MASTER"
CMD_WRITE == "CMD_WRITE"
CMD_READONLY == "CMD_READONLY"
CMD_ADMIN == "CMD_ADMIN"
CMD_FAST == "CMD_FAST"

\* The command table entries the queue can hold: a write, a read, a write that
\* fails when it runs, the admin command that changes the server's role, and
\* EXPIRE with a time in the past, which a primary runs as a DEL and rewrites
\* into one.
Cmd(name, key) == [name |-> name, key |-> key]
SetCmd(k) == Cmd("SET", k)
GetCmd(k) == Cmd("GET", k)
IncrCmd(k) == Cmd("INCR", k)
SlaveofCmd(on) == Cmd("SLAVEOF", IF on THEN 1 ELSE 0)
ExpireCmd(k) == Cmd("EXPIRE", k)
DelCmd(k) == Cmd("DEL", k)
NoCmd == Cmd("", 0)
MultiFrame == Cmd("MULTI", 0)
ExecFrame == Cmd("EXEC", 0)

CmdFlags(cmd) ==
    CASE cmd.name = "SET" -> {CMD_WRITE}
      [] cmd.name = "INCR" -> {CMD_WRITE}
      [] cmd.name = "GET" -> {CMD_READONLY}
      [] cmd.name = "SLAVEOF" -> {CMD_ADMIN}
      [] cmd.name = "EXPIRE" -> {CMD_WRITE, CMD_FAST}
      [] cmd.name = "DEL" -> {CMD_WRITE}
      [] OTHER -> {}

\* ------------------------------------------------------------- the replies
Reply(type) == [type |-> type, len |-> 0, elems |-> <<>>]
NoReply == Reply("none")
ok == Reply("ok")
queued == Reply("queued")
nullmultibulk == Reply("nullmultibulk")
execaborterr == Reply("execaborterr")
ErrNested == Reply("ERR MULTI calls can not be nested")
ErrDiscard == Reply("ERR DISCARD without MULTI")
ErrExec == Reply("ERR EXEC without MULTI")
ErrWatch == Reply("ERR WATCH inside MULTI is not allowed")
ErrReadonlySlave == Reply("ERR Transaction contains write commands but instance is now a read-only slave. EXEC aborted.")
ErrQueueTime == Reply("ERR unknown command")
MultiBulk(n) == [type |-> "multibulk", len |-> n, elems |-> <<>>]

\* ------------------------------------------------------------ server state
Cur ==
    [flags |-> flags, mstate |-> mstate, watched_keys |-> watched_keys,
     db_watched_keys |-> db_watched_keys, key_obj |-> key_obj, dict |-> dict,
     masterhost |-> masterhost, reply |-> NoReply, events |-> <<>>,
     panic |-> FALSE, drain |-> <<>>, cmd |-> NoCmd, dirty |-> 0,
     touched |-> touched, rejected |-> rejected]

addReply(s, c, r) ==
    IF s.reply.type = "multibulk"
    THEN [s EXCEPT !.reply.elems = Append(@, r.type)]
    ELSE [s EXCEPT !.reply = r]

\* ---------------------------------------------------------------- adlist
RECURSIVE listDelFirst(_, _)
listDelFirst(l, x) ==
    IF l = <<>> THEN <<>>
    ELSE IF Head(l) = x THEN Tail(l)
    ELSE <<Head(l)>> \o listDelFirst(Tail(l), x)

InList(l, x) == \E i \in 1..Len(l) : l[i] = x

\* ------------------------------------------------------------- multi state
initClientMultiState(s, c) ==
    [s EXCEPT !.mstate[c] = [commands |-> <<>>, cmd_flags |-> {}]]

\* A slip in queueMultiCommand: the flags of the new command replace the
\* gathered ones (= for |=).
queueMultiCommand_assignFlags(s, c, cmd) ==
    [s EXCEPT !.mstate[c] = [commands |-> Append(@.commands, cmd),
                             cmd_flags |-> CmdFlags(cmd)]]

queueMultiCommand(s, c, cmd) ==
    [s EXCEPT !.mstate[c] = [commands |-> Append(@.commands, cmd),
                             cmd_flags |-> @.cmd_flags \cup CmdFlags(cmd)]]

\* ---------------------------------------------------------------- WATCH
watchedKey(key, d) == [key |-> key, db |-> d]

\* A slip in watchForKey: the scan of the client's own list is missing.
watchForKey_noDedup(s, c, d, key) ==
    LET clients == IF key \in DOMAIN s.db_watched_keys[d]
                   THEN s.db_watched_keys[d][key] ELSE <<>>
        entry == [k \in {key} |-> Append(clients, c)]
        obj == [k \in {key} |-> [refcount |-> 2, owner |-> c]]
    IN [s EXCEPT !.db_watched_keys[d] = entry @@ @,
                 !.key_obj[d] = IF key \in DOMAIN @ THEN @ ELSE obj @@ @,
                 !.watched_keys[c] = Append(@, watchedKey(key, d))]

\* A slip in watchForKey: a new client list replaces the one the key has.
watchForKey_newList(s, c, d, key) ==
    IF InList(s.watched_keys[c], watchedKey(key, d))
    THEN s
    ELSE LET entry == [k \in {key} |-> <<c>>]
             obj == [k \in {key} |-> [refcount |-> 2, owner |-> c]]
         IN [s EXCEPT !.db_watched_keys[d] = entry @@ @,
                      !.key_obj[d] = IF key \in DOMAIN @ THEN @ ELSE obj @@ @,
                      !.watched_keys[c] = Append(@, watchedKey(key, d))]

watchForKey(s, c, d, key) ==
    IF InList(s.watched_keys[c], watchedKey(key, d))
    THEN s
    ELSE LET clients == IF key \in DOMAIN s.db_watched_keys[d]
                        THEN s.db_watched_keys[d][key] ELSE <<>>
             entry == [k \in {key} |-> Append(clients, c)]
             \* a new entry keeps the key object of this WATCH: one reference
             \* for the dict, one for this client's watchedKey
             obj == [k \in {key} |-> [refcount |-> 2, owner |-> c]]
         IN [s EXCEPT !.db_watched_keys[d] = entry @@ @,
                      !.key_obj[d] = IF key \in DOMAIN @ THEN @ ELSE obj @@ @,
                      !.watched_keys[c] = Append(@, watchedKey(key, d))]

\* A slip in unwatchAllKeys: the key's entry is deleted although other clients
\* still watch the key.
unwatchOne_deleteAlways(s, c, wk) ==
    LET wkeys == s.db_watched_keys[wk.db]
        objs == s.key_obj[wk.db]
    IN [s EXCEPT !.db_watched_keys[wk.db] = [k \in DOMAIN wkeys \ {wk.key} |-> wkeys[k]],
                 !.key_obj[wk.db] = [k \in DOMAIN objs \ {wk.key} |-> objs[k]],
                 !.watched_keys[c] = Tail(@)]

\* A slip in unwatchAllKeys: a key whose client list became empty stays in the
\* dict.
unwatchOne_noPrune(s, c, wk) ==
    LET wkeys == s.db_watched_keys[wk.db]
    IN IF wk.key \notin DOMAIN wkeys \/ ~InList(wkeys[wk.key], c)
       THEN [s EXCEPT !.panic = TRUE, !.watched_keys[c] = Tail(@)]
       ELSE LET objs == s.key_obj[wk.db]
                unref == IF objs[wk.key].owner = c
                         THEN [objs EXCEPT ![wk.key] =
                                  [refcount |-> @.refcount - 1, owner |-> 0]]
                         ELSE objs
            IN [s EXCEPT !.db_watched_keys[wk.db][wk.key] = listDelFirst(@, c),
                         !.key_obj[wk.db] = unref,
                         !.watched_keys[c] = Tail(@)]

\* One turn of the loop of unwatchAllKeys, for the watchedKey at the head of
\* the client's list.
unwatchOne(s, c, wk) ==
    LET wkeys == s.db_watched_keys[wk.db]
    IN IF wk.key \notin DOMAIN wkeys \/ ~InList(wkeys[wk.key], c)
       THEN [s EXCEPT !.panic = TRUE, !.watched_keys[c] = Tail(@)]
       ELSE LET clients == listDelFirst(wkeys[wk.key], c)
                pruned == [k \in DOMAIN wkeys \ {wk.key} |-> wkeys[k]]
                kept == [wkeys EXCEPT ![wk.key] = clients]
                objs == s.key_obj[wk.db]
                \* decrRefCount(wk->key) reaches the entry's key object only
                \* when this watchedKey points to it
                unref == IF objs[wk.key].owner = c
                         THEN [objs EXCEPT ![wk.key] =
                                  [refcount |-> @.refcount - 1, owner |-> 0]]
                         ELSE objs
            IN [s EXCEPT !.db_watched_keys[wk.db] =
                             IF clients = <<>> THEN pruned ELSE kept,
                         !.key_obj[wk.db] =
                             IF clients = <<>>
                             THEN [k \in DOMAIN objs \ {wk.key} |-> objs[k]]
                             ELSE unref,
                         !.watched_keys[c] = Tail(@)]

RECURSIVE unwatchAllKeys(_, _)
unwatchAllKeys(s, c) ==
    IF s.watched_keys[c] = <<>> THEN s
    ELSE unwatchAllKeys(unwatchOne(s, c, Head(s.watched_keys[c])), c)

\* A slip in touchWatchedKey: only the first client of the list is flagged.
touchWatchedKey_firstOnly(s, d, key) ==
    IF key \notin DOMAIN s.db_watched_keys[d] THEN s
    ELSE [s EXCEPT !.flags[Head(s.db_watched_keys[d][key])] = @ \cup {CLIENT_DIRTY_CAS}]

\* A slip in touchWatchedKey: the key is looked up in every database.
touchWatchedKey_anyDb(s, d, key) ==
    [s EXCEPT !.flags = [c \in Clients |->
        IF \E x \in Dbs : /\ key \in DOMAIN s.db_watched_keys[x]
                          /\ InList(s.db_watched_keys[x][key], c)
        THEN @[c] \cup {CLIENT_DIRTY_CAS} ELSE @[c]]]

touchWatchedKey(s, d, key) ==
    IF DOMAIN s.db_watched_keys[d] = {} THEN s
    ELSE IF key \notin DOMAIN s.db_watched_keys[d] THEN s
    ELSE LET clients == s.db_watched_keys[d][key]
         IN [s EXCEPT !.flags = [c \in Clients |->
                IF InList(clients, c) THEN @[c] \cup {CLIENT_DIRTY_CAS} ELSE @[c]]]

\* A slip in touchWatchedKeysOnFlush: the key is not looked up in the store.
touchWatchedKeysOnFlush_anyKey(s, dbid) ==
    [s EXCEPT !.flags = [c \in Clients |->
        IF \E i \in 1..Len(s.watched_keys[c]) :
              dbid = -1 \/ s.watched_keys[c][i].db = dbid
        THEN @[c] \cup {CLIENT_DIRTY_CAS} ELSE @[c]]]

\* dbid = -1 is FLUSHALL.
touchWatchedKeysOnFlush(s, dbid) ==
    [s EXCEPT !.flags = [c \in Clients |->
        IF \E i \in 1..Len(s.watched_keys[c]) :
              LET wk == s.watched_keys[c][i]
              IN (dbid = -1 \/ wk.db = dbid) /\ wk.key \in s.dict[wk.db]
        THEN @[c] \cup {CLIENT_DIRTY_CAS} ELSE @[c]]]

RECURSIVE watchEach(_, _, _, _)
watchEach(s, c, d, keys) ==
    IF keys = <<>> THEN s
    ELSE watchEach(watchForKey(s, c, d, Head(keys)), c, d, Tail(keys))

\* A slip in watchCommand: the error is replied and the keys are watched all the
\* same (the return is missing).
watchCommand_noReturn(s, c, d, keys) ==
    IF CLIENT_MULTI \in s.flags[c]
    THEN addReply(watchEach(s, c, d, keys), c, ErrWatch)
    ELSE addReply(watchEach(s, c, d, keys), c, ok)

watchCommand(s, c, d, keys) ==
    IF CLIENT_MULTI \in s.flags[c]
    THEN addReply(s, c, ErrWatch)
    ELSE addReply(watchEach(s, c, d, keys), c, ok)

\* A slip in unwatchCommand: CLIENT_DIRTY_CAS is left as it is.
unwatchCommand_keepCas(s, c) == addReply(unwatchAllKeys(s, c), c, ok)

\* A slip in unwatchCommand: it ends the transaction as DISCARD does.
unwatchCommand_discards(s, c) ==
    addReply(
        unwatchAllKeys(
            [initClientMultiState(s, c) EXCEPT
                !.flags[c] = @ \ {CLIENT_MULTI, CLIENT_DIRTY_CAS, CLIENT_DIRTY_EXEC}],
            c),
        c, ok)

unwatchCommand(s, c) ==
    addReply([unwatchAllKeys(s, c) EXCEPT !.flags[c] = @ \ {CLIENT_DIRTY_CAS}], c, ok)

\* ------------------------------------------------------------- MULTI/EXEC
\* A slip in discardTransaction: the watches are left in place.
discardTransaction_keepWatches(s, c) ==
    [initClientMultiState(s, c) EXCEPT
        !.flags[c] = @ \ {CLIENT_MULTI, CLIENT_DIRTY_CAS, CLIENT_DIRTY_EXEC}]

\* A slip in discardTransaction: CLIENT_DIRTY_CAS is missing from the mask.
discardTransaction_keepCas(s, c) ==
    unwatchAllKeys(
        [initClientMultiState(s, c) EXCEPT
            !.flags[c] = @ \ {CLIENT_MULTI, CLIENT_DIRTY_EXEC}],
        c)

\* A slip in discardTransaction: the flags are cleared and the queue is kept.
discardTransaction_keepQueue(s, c) ==
    unwatchAllKeys(
        [s EXCEPT !.flags[c] = @ \ {CLIENT_MULTI, CLIENT_DIRTY_CAS, CLIENT_DIRTY_EXEC}],
        c)

discardTransaction(s, c) ==
    unwatchAllKeys(
        [initClientMultiState(s, c) EXCEPT
            !.flags[c] = @ \ {CLIENT_MULTI, CLIENT_DIRTY_CAS, CLIENT_DIRTY_EXEC}],
        c)

\* A slip in flagTransaction: the flag is set whether or not the client is in
\* MULTI.
flagTransaction_always(s, c) == [s EXCEPT !.flags[c] = @ \cup {CLIENT_DIRTY_EXEC}]

flagTransaction(s, c) ==
    IF CLIENT_MULTI \in s.flags[c]
    THEN [s EXCEPT !.flags[c] = @ \cup {CLIENT_DIRTY_EXEC}]
    ELSE s

\* A slip in multiCommand: entering MULTI starts from a clean CAS flag.
multiCommand_clearsCas(s, c) ==
    IF CLIENT_MULTI \in s.flags[c]
    THEN addReply(s, c, ErrNested)
    ELSE addReply([s EXCEPT !.flags[c] = (@ \ {CLIENT_DIRTY_CAS}) \cup {CLIENT_MULTI}], c, ok)

multiCommand(s, c) ==
    IF CLIENT_MULTI \in s.flags[c]
    THEN addReply(s, c, ErrNested)
    ELSE addReply([s EXCEPT !.flags[c] = @ \cup {CLIENT_MULTI}], c, ok)

discardCommand(s, c) ==
    IF CLIENT_MULTI \notin s.flags[c]
    THEN addReply(s, c, ErrDiscard)
    ELSE addReply(discardTransaction(s, c), c, ok)

\* ------------------------------------------- the executor and propagation
\* History only: the clients whose watched list holds (d, key) have seen it
\* modified.
noteModified(s, d, key) ==
    [s EXCEPT !.touched = [c \in Clients |->
        IF InList(s.watched_keys[c], watchedKey(key, d)) THEN TRUE ELSE @[c]]]

\* propagate(): the frame goes to the sink (AOF and replication); the
\* replication side puts it in the backlog only while the server is a primary.
Event(kind, cmd, c, d) == [kind |-> kind, cmd |-> cmd, c |-> c, db |-> d]

feedReplicationBacklog(s, cmd) ==
    [s EXCEPT !.events = Append(@, Event("backlog", cmd, 0, 0))]

propagate(s, cmd, d, env) ==
    LET s1 == [s EXCEPT !.events = Append(@, Event("propagate", cmd, 0, d))]
    IN IF env.repl_backlog /\ ~s.masterhost THEN feedReplicationBacklog(s1, cmd) ELSE s1

\* The command's own procedure.
proc(s, c, d, cmd, env) ==
    CASE cmd.name = "SET" ->
            addReply(
                [touchWatchedKey(noteModified(s, d, cmd.key), d, cmd.key) EXCEPT
                    !.dict[d] = @ \cup {cmd.key}, !.dirty = @ + 1],
                c, ok)
      [] cmd.name = "GET" ->
            addReply(s, c, Reply(IF cmd.key \in s.dict[d] THEN "bulk" ELSE "nullbulk"))
      [] cmd.name = "INCR" ->
            addReply(s, c, Reply("ERR value is not an integer or out of range"))
      [] cmd.name = "SLAVEOF" ->
            addReply([s EXCEPT !.masterhost = (cmd.key = 1)], c, ok)
      [] cmd.name = "EXPIRE" ->
            IF cmd.key \notin s.dict[d] THEN addReply(s, c, Reply("zero"))
            ELSE LET s1 == touchWatchedKey(noteModified(s, d, cmd.key), d, cmd.key)
                 IN IF ~env.loading /\ ~s.masterhost
                    THEN addReply([s1 EXCEPT !.dict[d] = @ \ {cmd.key},
                                             !.cmd = DelCmd(cmd.key),
                                             !.dirty = @ + 1], c, Reply("one"))
                    ELSE addReply([s1 EXCEPT !.dirty = @ + 1], c, Reply("one"))
      [] cmd.name = "DEL" ->
            IF cmd.key \notin s.dict[d] THEN addReply(s, c, Reply("zero"))
            ELSE addReply(
                     [touchWatchedKey(noteModified(s, d, cmd.key), d, cmd.key) EXCEPT
                         !.dict[d] = @ \ {cmd.key}, !.dirty = @ + 1],
                     c, Reply("one"))
      [] OTHER -> s

\* call(): run the command c->cmd, and propagate it, as the procedure left it,
\* when it changed the dataset and the call flags ask for it (CMD_CALL_FULL;
\* CMD_CALL_NONE while loading).
afterProc(s, dirty, d, env, full) ==
    IF s.dirty > dirty /\ full THEN propagate(s, s.cmd, d, env) ELSE s

call(s, c, d, cmd, env, full) ==
    afterProc(
        proc([s EXCEPT !.events = Append(@, Event("call", cmd, c, d)), !.cmd = cmd],
             c, d, cmd, env),
        s.dirty, d, env, full)

execCommandPropagateMulti(s, c, d, env) == propagate(s, MultiFrame, d, env)

\* One turn of the loop of execCommand, for command j; the result carries
\* must_propagate.
\* "Commands may alter argc/argv, restore mstate."
restoreMstate(s, c, j) ==
    [s EXCEPT !.mstate[c].commands[j] = s.cmd,
              !.drain = Append(@, [s.mstate[c] EXCEPT !.commands[j] = s.cmd])]

execOne(s, c, env, j, must_propagate) ==
    LET cmd == s.mstate[c].commands[j]
        first == ~must_propagate /\ CmdFlags(cmd) \cap {CMD_READONLY, CMD_ADMIN} = {}
        s1 == IF first THEN execCommandPropagateMulti(s, c, env.db, env) ELSE s
    IN [s |-> restoreMstate(call(s1, c, env.db, cmd, env, ~env.loading), c, j),
        must_propagate |-> must_propagate \/ first]

\* A slip in the loop: it stops at the first command that replied an error.
RECURSIVE execDrain_stopOnError(_, _, _, _, _)
execDrain_stopOnError(s, c, env, j, must_propagate) ==
    IF \/ j > Len(s.mstate[c].commands)
       \/ /\ s.reply.elems # <<>>
          /\ s.reply.elems[Len(s.reply.elems)] \notin {"ok", "bulk", "nullbulk"}
    THEN [s |-> s, must_propagate |-> must_propagate]
    ELSE LET r == execOne(s, c, env, j, must_propagate)
         IN execDrain_stopOnError(r.s, c, env, j + 1, r.must_propagate)

\* The loop of execCommand from command j on.
RECURSIVE execDrain(_, _, _, _, _)
execDrain(s, c, env, j, must_propagate) ==
    IF j > Len(s.mstate[c].commands)
    THEN [s |-> s, must_propagate |-> must_propagate]
    ELSE LET r == execOne(s, c, env, j, must_propagate)
         IN execDrain(r.s, c, env, j + 1, r.must_propagate)

\* A slip in the abort reply: the CAS flag is looked at first.
execAbortReply_casFirst(s, c) ==
    IF CLIENT_DIRTY_CAS \in s.flags[c] THEN nullmultibulk ELSE execaborterr

\* The reply of an EXEC that finds one of the dirty flags set.
execAbortReply(s, c) ==
    IF CLIENT_DIRTY_EXEC \in s.flags[c] THEN execaborterr ELSE nullmultibulk

\* A slip in the gate of execCommand: the replication link is refused like any
\* other client.
execCommand_gateForAll(s, c, env) ==
    LET was_master == ~s.masterhost
    IN IF CLIENT_MULTI \notin s.flags[c]
       THEN addReply(s, c, ErrExec)
       ELSE IF s.flags[c] \cap {CLIENT_DIRTY_CAS, CLIENT_DIRTY_EXEC} # {}
       THEN discardTransaction(addReply(s, c, execAbortReply(s, c)), c)
       ELSE IF /\ ~env.loading /\ s.masterhost /\ env.repl_slave_ro
               /\ CMD_WRITE \in s.mstate[c].cmd_flags
       THEN discardTransaction(addReply(s, c, ErrReadonlySlave), c)
       ELSE LET s1 == unwatchAllKeys(s, c)
                s2 == [s1 EXCEPT !.reply = MultiBulk(Len(s1.mstate[c].commands))]
                d == execDrain(s2, c, env, 1, FALSE)
                s3 == discardTransaction(d.s, c)
                is_master == ~s3.masterhost
            IN IF ~d.must_propagate THEN s3
               ELSE LET s4 == [s3 EXCEPT !.dirty = @ + 1]
                    IN IF env.repl_backlog /\ was_master /\ ~is_master
                       THEN feedReplicationBacklog(s4, ExecFrame)
                       ELSE s4

execCommand(s, c, env) ==
    LET was_master == ~s.masterhost
    IN IF CLIENT_MULTI \notin s.flags[c]
       THEN addReply(s, c, ErrExec)
       ELSE IF s.flags[c] \cap {CLIENT_DIRTY_CAS, CLIENT_DIRTY_EXEC} # {}
       THEN discardTransaction(addReply(s, c, execAbortReply(s, c)), c)
       ELSE IF /\ ~env.loading /\ s.masterhost /\ env.repl_slave_ro
               /\ CLIENT_MASTER \notin s.flags[c]
               /\ CMD_WRITE \in s.mstate[c].cmd_flags
       THEN discardTransaction(addReply(s, c, ErrReadonlySlave), c)
       ELSE LET s1 == unwatchAllKeys(s, c)
                s2 == [s1 EXCEPT !.reply = MultiBulk(Len(s1.mstate[c].commands))]
                d == execDrain(s2, c, env, 1, FALSE)
                s3 == discardTransaction(d.s, c)
                is_master == ~s3.masterhost
            IN IF ~d.must_propagate THEN s3
               ELSE LET s4 == [s3 EXCEPT !.dirty = @ + 1]
                    IN IF env.repl_backlog /\ was_master /\ ~is_master
                       THEN feedReplicationBacklog(s4, ExecFrame)
                       ELSE s4

\* ------------------------------------------------------------ dispatcher
\* The caller of a handler: call() around the handler propagates the command
\* itself when the handler changed server.dirty.
callExec(s, c, env) ==
    LET s1 == execCommand(s, c, env)
    IN IF s1.dirty > 0 /\ ~env.loading THEN propagate(s1, ExecFrame, env.db, env) ELSE s1

\* A command other than MULTI, EXEC, DISCARD, WATCH and UNWATCH: queued inside
\* MULTI, run at once otherwise.
processCommand(s, c, cmd, env) ==
    IF CLIENT_MULTI \in s.flags[c]
    THEN addReply(queueMultiCommand(s, c, cmd), c, queued)
    ELSE call(s, c, env.db, cmd, env, TRUE)

\* A command the dispatcher rejects (unknown name, wrong arity).
rejectCommand(s, c) == addReply(flagTransaction(s, c), c, ErrQueueTime)

\* FLUSHDB (dbid = c->db->id) or FLUSHALL (dbid = -1): the hook runs before
\* the keys are removed.
flushCommand(s, c, dbid) ==
    LET s1 == touchWatchedKeysOnFlush(s, dbid)
        s2 == [s1 EXCEPT !.touched = [x \in Clients |->
                   IF \E i \in 1..Len(s.watched_keys[x]) :
                         LET wk == s.watched_keys[x][i]
                         IN (dbid = -1 \/ wk.db = dbid) /\ wk.key \in s.dict[wk.db]
                   THEN TRUE ELSE @[x]]]
    IN addReply([s2 EXCEPT !.dict = [d \in Dbs |->
                    IF dbid = -1 \/ d = dbid THEN {} ELSE @[d]]], c, ok)

\* freeClient(): the cleanup of DISCARD; the slot then holds a new client.
freeClient(s, c) == discardTransaction(s, c)

\* --------------------------------------------------------------- actions
Env == [db : Dbs, loading : BOOLEAN, repl_slave_ro : BOOLEAN, repl_backlog : BOOLEAN]
PlainEnv(d) == [db |-> d, loading |-> FALSE, repl_slave_ro |-> TRUE, repl_backlog |-> TRUE]

QueueCmds == {SetCmd(k) : k \in Keys}
DrainCmds == {SetCmd(1), GetCmd(1), IncrCmd(1), SlaveofCmd(TRUE), SlaveofCmd(FALSE)}
BatchCmds == {SetCmd(1), GetCmd(1), ExpireCmd(1), SlaveofCmd(TRUE), SlaveofCmd(FALSE)}

\* The record of a command: its name, its client, the client's flags when it
\* arrived and its inputs.
Op(name, c, env) == [op |-> name, c |-> c, flags |-> flags[c], env |-> env]

Store(s, op) ==
    /\ flags' = s.flags
    /\ mstate' = s.mstate
    /\ watched_keys' = s.watched_keys
    /\ db_watched_keys' = s.db_watched_keys
    /\ key_obj' = s.key_obj
    /\ dict' = s.dict
    /\ masterhost' = s.masterhost
    /\ reply' = s.reply
    /\ events' = s.events
    /\ panic' = s.panic
    /\ drain' = s.drain
    /\ touched' = s.touched
    /\ rejected' = s.rejected
    /\ last' = op

InMulti(c) == CLIENT_MULTI \in flags[c]

\* History: c gave up its watches, or its transaction, before EXEC.
released(s, c) == [s EXCEPT !.touched[c] = FALSE]
closed(s, c) == [s EXCEPT !.touched[c] = FALSE, !.rejected[c] = FALSE]

Multi(c) ==
    Store(multiCommand(Cur, c), Op("MULTI", c, PlainEnv(0)))

Discard(c) ==
    LET s == discardCommand(Cur, c)
    IN Store(IF InMulti(c) THEN [released(s, c) EXCEPT !.rejected[c] = FALSE] ELSE s,
             Op("DISCARD", c, PlainEnv(0)))

Exec(c, env) ==
    LET s == callExec(Cur, c, env)
    IN Store(IF InMulti(c) THEN closed(s, c) ELSE s, Op("EXEC", c, env))

Watch(c, d, keys) ==
    Store(watchCommand(Cur, c, d, keys), Op("WATCH", c, PlainEnv(d)))

Unwatch(c) ==
    Store(released(unwatchCommand(Cur, c), c), Op("UNWATCH", c, PlainEnv(0)))

Command(c, cmd, d) ==
    Store(processCommand(Cur, c, cmd, PlainEnv(d)),
          Op(IF InMulti(c) THEN "QUEUE" ELSE "CALL", c, PlainEnv(d)))

Reject(c) ==
    LET s == rejectCommand(Cur, c)
    IN Store(IF InMulti(c) THEN [s EXCEPT !.rejected[c] = TRUE] ELSE s,
             Op("REJECT", c, PlainEnv(0)))

Flush(c, dbid) ==
    /\ ~InMulti(c)
    /\ Store(flushCommand(Cur, c, dbid), Op("FLUSH", c, PlainEnv(dbid)))

Free(c) ==
    Store(closed(freeClient(Cur, c), c), Op("FREE", c, PlainEnv(0)))

\* --------------------------------------------------------- specification
Init ==
    /\ flags = [c \in Clients |-> IF c = NumClients THEN {CLIENT_MASTER} ELSE {}]
    /\ mstate = [c \in Clients |-> [commands |-> <<>>, cmd_flags |-> {}]]
    /\ watched_keys = [c \in Clients |-> <<>>]
    /\ db_watched_keys = [d \in Dbs |-> <<>>]
    /\ key_obj = [d \in Dbs |-> <<>>]
    /\ dict = [d \in Dbs |-> {}]
    /\ masterhost = FALSE
    /\ reply = NoReply
    /\ events = <<>>
    /\ panic = FALSE
    /\ drain = <<>>
    /\ last = [op |-> "none", c |-> 1, flags |-> {}, env |-> PlainEnv(0)]
    /\ touched = [c \in Clients |-> FALSE]
    /\ rejected = [c \in Clients |-> FALSE]

\* The bounds are server-wide: at most MaxWatch watchedKey structures and
\* MaxQueue queued commands exist at a time, and a command sent on its own
\* leaves at most MaxStored keys in the store.
RECURSIVE Total(_, _)
Total(f, n) == IF n = 0 THEN 0 ELSE f[n] + Total(f, n - 1)
Watching == Total([c \in Clients |-> Len(watched_keys[c])], NumClients)
Stored == Total([n \in 1..NumDbs |-> Cardinality(dict[n - 1])], NumDbs)
Queueing == Total([c \in Clients |-> Len(mstate[c].commands)], NumClients)

\* Any interleaving of the commands of all clients over all keys and databases,
\* with short transactions of writes.
Next ==
    \E c \in Clients :
        \/ Multi(c)
        \/ Discard(c)
        \/ \E d \in Dbs : Exec(c, PlainEnv(IF InMulti(c) THEN d ELSE 0))
        \/ \E d \in Dbs, k \in Keys : Watch(c, d, <<k>>) /\ Watching' <= MaxWatch
        \/ Unwatch(c)
        \/ \E cmd \in QueueCmds, d \in Dbs :
              /\ InMulti(c) => Queueing < MaxQueue /\ d = 0
              /\ Command(c, cmd, d)
              /\ Stored' <= MaxStored
        \/ ~InMulti(c) /\ Command(c, GetCmd(1), 0)
        \/ \E dbid \in Dbs \cup {-1} : Flush(c, dbid)
        \/ Free(c)

Spec == Init /\ [][Next]_vars

\* Client 1 runs transactions of up to MaxDrain commands of every kind over one
\* key, in every environment; the other clients watch and modify that key.
NextTx ==
    \/ Multi(1)
    \/ Discard(1)
    \/ \E env \in (IF InMulti(1) THEN {e \in Env : e.db = 0} ELSE {PlainEnv(0)}) :
          Exec(1, env)
    \/ Reject(1)
    \/ \E cmd \in DrainCmds :
          /\ InMulti(1) => Len(mstate[1].commands) < MaxDrain
          /\ Command(1, cmd, 0)
    \/ \E c \in Clients :
          \/ Watch(c, 0, <<1>>)
          \/ Unwatch(c)
          \/ c # 1 /\ Command(c, SetCmd(1), 0)
          \/ Flush(c, 0)
          \/ Free(c)

SpecTx == Init /\ [][NextTx]_vars

\* Every client, the replication link included, runs transactions of up to
\* MaxBatch commands, among them the command that is rewritten when it runs,
\* whether or not the server is loading and follower writes are allowed.
NextQ ==
    \E c \in Clients :
        \/ Multi(c)
        \/ Discard(c)
        \/ \E env \in (IF InMulti(c)
                        THEN {e \in Env : e.db = 0 /\ e.repl_backlog}
                        ELSE {PlainEnv(0)}) :
              Exec(c, env)
        \/ \E cmd \in BatchCmds :
              /\ InMulti(c) => Queueing < MaxBatch
              /\ Command(c, cmd, 0)

SpecQ == Init /\ [][NextQ]_vars

\* ================================================================ claims
IsCall(e) == e.kind = "call"
IsPropagate(e) == e.kind = "propagate"
IsBacklog(e) == e.kind = "backlog"
NotBacklog(e) == e.kind # "backlog"
Cmds(ev) == [i \in 1..Len(ev) |-> ev[i].cmd]
Called(ev) == Cmds(SelectSeq(ev, IsCall))
Propagated(ev) == Cmds(SelectSeq(ev, IsPropagate))
Backlogged(ev) == Cmds(SelectSeq(ev, IsBacklog))

Indexed(c, d, k) == k \in DOMAIN db_watched_keys[d] /\ InList(db_watched_keys[d][k], c)
NotIndexed(c) == \A d \in Dbs, k \in Keys : ~Indexed(c, d, k)
DirtyFlags == {CLIENT_DIRTY_CAS, CLIENT_DIRTY_EXEC}

\* C1: at every command boundary, client c is in the client list of key k of
\* database d exactly when (d, k) is in c's own watched list.
C1_WatchIndexConsistent ==
    \A c \in Clients, d \in Dbs, k \in Keys :
        Indexed(c, d, k) <=> InList(watched_keys[c], watchedKey(k, d))

\* Two clients watch the same key, and one of them has since been served
\* another command.
C1_Witness ==
    /\ 1 \in DOMAIN db_watched_keys[1]
    /\ db_watched_keys[1][1] = <<2, 1>>
    /\ last.op = "QUEUE"

\* The client of the last command holds no transaction state at all.
Clean(c) ==
    /\ watched_keys[c] = <<>>
    /\ mstate[c].commands = <<>>
    /\ flags[c] \cap {CLIENT_MULTI, CLIENT_DIRTY_CAS, CLIENT_DIRTY_EXEC} = {}
    /\ NotIndexed(c)

\* The last command ended a transaction (DISCARD or EXEC accepted inside MULTI)
\* or freed the client.
Terminal ==
    \/ last.op = "FREE"
    \/ last.op = "DISCARD" /\ reply = ok
    \/ last.op = "EXEC" /\ reply # ErrExec

\* C2 as stated: after DISCARD, EXEC, UNWATCH or client-free the client's
\* watched list and queue are empty, dirty_cas, dirty_exec and in_multi are
\* false, and the client is in no per-key client list.
C2_Original == (Terminal \/ last.op = "UNWATCH") => Clean(last.c)

\* C2 as amended: that holds after a DISCARD or EXEC accepted inside MULTI and
\* after client-free; UNWATCH empties the watched list, clears dirty_cas and
\* takes the client out of every per-key list, and leaves the client wholly
\* clean only when it was issued outside MULTI.
C2_Cleanup ==
    /\ Terminal => Clean(last.c)
    /\ last.op = "UNWATCH" =>
          /\ watched_keys[last.c] = <<>>
          /\ CLIENT_DIRTY_CAS \notin flags[last.c]
          /\ NotIndexed(last.c)
          /\ CLIENT_MULTI \notin last.flags => Clean(last.c)

\* An EXEC that ran a batch of two or more commands for a client that was
\* watching nothing it lost.
C2_Witness == last.op = "EXEC" /\ reply.type = "multibulk" /\ reply.len >= 2

\* C3 as stated: when a key c watches was modified after the WATCH (by any
\* client), c's next EXEC inside MULTI replies the null array and runs none of
\* the queued commands.
C3_Original ==
    [][\A c \in Clients :
        (last'.op = "EXEC" /\ last'.c = c /\ InMulti(c) /\ touched[c]) =>
            /\ reply' = nullmultibulk
            /\ Called(events') = <<>>]_vars

\* C3 as amended: with the watch still in force (no UNWATCH, DISCARD or EXEC of
\* c since the modification), that EXEC runs none of the queued commands and
\* leaves the store alone; it replies the null array, or EXECABORT when a
\* command of the transaction was rejected at queue time.
C3_WatchCancelsExec ==
    [][\A c \in Clients :
        (last'.op = "EXEC" /\ last'.c = c /\ InMulti(c) /\ touched[c]) =>
            /\ reply' = IF rejected[c] THEN execaborterr ELSE nullmultibulk
            /\ events' = <<>>
            /\ dict' = dict]_vars

\* Client 1's EXEC was cancelled by a modification of the key, which is now
\* in the store, while client 2 goes on watching it.
C3_Witness ==
    /\ last.op = "EXEC" /\ last.c = 1 /\ reply = nullmultibulk
    /\ 1 \in dict[0]
    /\ watched_keys[2] # <<>>

\* The transaction of c is over: nothing ran, the queue and the watches are
\* gone, c is idle.
Aborted(c) ==
    /\ events' = <<>>
    /\ mstate'[c].commands = <<>>
    /\ watched_keys'[c] = <<>>
    /\ NotIndexed(c)'
    /\ flags'[c] \cap {CLIENT_MULTI, CLIENT_DIRTY_CAS, CLIENT_DIRTY_EXEC} = {}

\* The batch of c ran: every queued command was called, in order.
Ran(c) ==
    /\ reply'.type = "multibulk"
    /\ Called(events') = mstate[c].commands

\* C4 as stated: EXEC inside MULTI replies EXECABORT when dirty_exec is set
\* (whatever dirty_cas is), else the null array when dirty_cas is set, else the
\* batch runs; both aborts run nothing and end the transaction.
C4_Original ==
    [][\A c \in Clients :
        (last'.op = "EXEC" /\ last'.c = c /\ InMulti(c)) =>
            IF CLIENT_DIRTY_EXEC \in flags[c] THEN reply' = execaborterr /\ Aborted(c)
            ELSE IF CLIENT_DIRTY_CAS \in flags[c] THEN reply' = nullmultibulk /\ Aborted(c)
            ELSE Ran(c)]_vars

\* C4 as amended: with neither flag set the batch runs unless the server is a
\* read-only follower, where the EXEC may be refused with the read-only error
\* (and the transaction ends in the same way).
C4_AbortPrecedence ==
    [][\A c \in Clients :
        (last'.op = "EXEC" /\ last'.c = c /\ InMulti(c)) =>
            IF CLIENT_DIRTY_EXEC \in flags[c] THEN reply' = execaborterr /\ Aborted(c)
            ELSE IF CLIENT_DIRTY_CAS \in flags[c] THEN reply' = nullmultibulk /\ Aborted(c)
            ELSE \/ Ran(c)
                 \/ /\ reply' = ErrReadonlySlave /\ Aborted(c)
                    /\ masterhost /\ last'.env.repl_slave_ro]_vars

\* An EXEC that found both flags set and replied EXECABORT.
C4_Witness ==
    /\ last.op = "EXEC" /\ reply = execaborterr
    /\ {CLIENT_MULTI, CLIENT_DIRTY_CAS, CLIENT_DIRTY_EXEC} \subseteq last.flags

\* C5: nested MULTI, EXEC outside MULTI, DISCARD outside MULTI and WATCH inside
\* MULTI reply their error and change nothing: not the flags, the queue and its
\* flags, the watched lists, the watch index, the store or the role, and
\* nothing is called or propagated.
C5_StateErrorsChangeNothing ==
    [][\A c \in Clients :
        last'.c = c =>
            /\ (last'.op = "MULTI" /\ InMulti(c)) => reply' = ErrNested
            /\ (last'.op = "EXEC" /\ ~InMulti(c)) => reply' = ErrExec
            /\ (last'.op = "DISCARD" /\ ~InMulti(c)) => reply' = ErrDiscard
            /\ (last'.op = "WATCH" /\ InMulti(c)) => reply' = ErrWatch
            /\ (\/ last'.op \in {"MULTI", "WATCH"} /\ InMulti(c)
                \/ last'.op \in {"EXEC", "DISCARD"} /\ ~InMulti(c)) =>
                  /\ UNCHANGED <<flags, mstate, watched_keys, db_watched_keys, dict,
                                 masterhost>>
                  /\ events' = <<>>]_vars

\* WATCH was refused inside a MULTI that has a command queued and a rejected
\* command, for a client that watches a key.
C5_Witness ==
    /\ last.op = "WATCH" /\ reply = ErrWatch
    /\ mstate[last.c].commands # <<>>
    /\ watched_keys[last.c] # <<>>
    /\ CLIENT_DIRTY_EXEC \in flags[last.c]

\* C6: a command rejected at queue time inside MULTI sets dirty_exec and is
\* not queued; the EXEC of that transaction replies EXECABORT, calls none of
\* the commands queued before or after it and leaves the store as it was.  A
\* command rejected outside MULTI sets no flag.
C6_QueueErrorPoisons ==
    [][\A c \in Clients :
        /\ (last'.op = "REJECT" /\ last'.c = c) =>
              /\ flags' = IF InMulti(c)
                          THEN [flags EXCEPT ![c] = @ \cup {CLIENT_DIRTY_EXEC}]
                          ELSE flags
              /\ UNCHANGED <<mstate, watched_keys, db_watched_keys, dict>>
        /\ (last'.op = "EXEC" /\ last'.c = c /\ InMulti(c) /\ rejected[c]) =>
              /\ reply' = execaborterr
              /\ events' = <<>>
              /\ dict' = dict]_vars

\* An EXEC replied EXECABORT for a transaction whose only fault was a rejected
\* command.
C6_Witness ==
    /\ last.op = "EXEC" /\ reply = execaborterr
    /\ last.flags = {CLIENT_MULTI, CLIENT_DIRTY_EXEC}

\* C7: a dirty_cas that is set stays set through every command of every
\* client, the client's own MULTI and its queued commands included; it goes
\* only with the client's UNWATCH, with its EXEC or DISCARD inside MULTI, and
\* with the client itself; and an EXEC inside MULTI that finds it set runs
\* nothing.
C7_DirtyCasSurvivesMulti ==
    [][\A c \in Clients :
        /\ (CLIENT_DIRTY_CAS \in flags[c] /\ CLIENT_DIRTY_CAS \notin flags'[c]) =>
              /\ last'.c = c
              /\ \/ last'.op \in {"UNWATCH", "FREE"}
                 \/ last'.op \in {"EXEC", "DISCARD"} /\ InMulti(c)
        /\ (last'.op = "EXEC" /\ last'.c = c /\ InMulti(c)
               /\ CLIENT_DIRTY_CAS \in flags[c]) =>
              /\ reply' \in {nullmultibulk, execaborterr}
              /\ events' = <<>>]_vars

\* A client that was already dirty has entered MULTI and is still dirty.
C7_Witness ==
    /\ last.op = "MULTI" /\ reply = ok
    /\ CLIENT_DIRTY_CAS \in last.flags
    /\ {CLIENT_MULTI, CLIENT_DIRTY_CAS} \subseteq flags[last.c]

\* The read-only-follower gate of EXEC bars the transaction of c.
GateBars(c, env) ==
    /\ ~env.loading /\ masterhost /\ env.repl_slave_ro
    /\ CLIENT_MASTER \notin flags[c]
    /\ CMD_WRITE \in mstate[c].cmd_flags

IsTrigger(cmd) == CmdFlags(cmd) \cap {CMD_READONLY, CMD_ADMIN} = {}
IsSet(cmd) == cmd.name = "SET"
FirstTrigger(q) ==
    CHOOSE k \in 1..Len(q) : IsTrigger(q[k]) /\ \A j \in 1..(k - 1) : ~IsTrigger(q[j])

\* The frames handed to the propagation sink by an EXEC that ran the queue q:
\* one MULTI, right before the call of the first command of q that is neither
\* read-only nor admin, then the commands that wrote, then the closing EXEC.
FramedBlock(q, ev) ==
    LET k == FirstTrigger(q)
    IN /\ Propagated(ev) = <<MultiFrame>> \o SelectSeq(q, IsSet) \o <<ExecFrame>>
       /\ Len(ev) > k
       /\ \A i \in 1..(k - 1) : ev[i].kind = "call"
       /\ ev[k].kind = "propagate" /\ ev[k].cmd = MultiFrame
       /\ ev[k + 1].kind = "call" /\ ev[k + 1].cmd = q[k]

\* C8: an EXEC inside MULTI that is cancelled by dirty_cas, aborted by
\* dirty_exec or refused by the read-only-follower gate propagates nothing; an
\* EXEC that runs a batch without a command that is neither read-only nor
\* admin propagates nothing; any other EXEC propagates one MULTI, emitted once
\* and right before that first command is called, then the commands that
\* wrote, then one closing EXEC.
C8_PropagationShape ==
    [][\A c \in Clients :
        (last'.op = "EXEC" /\ last'.c = c /\ InMulti(c)) =>
            LET q == mstate[c].commands
            IN IF \/ flags[c] \cap DirtyFlags # {}
                  \/ GateBars(c, last'.env)
                  \/ \A k \in 1..Len(q) : ~IsTrigger(q[k])
               THEN Propagated(events') = <<>>
               ELSE FramedBlock(q, SelectSeq(events', NotBacklog))]_vars

\* The MULTI and EXEC frames of a stretch of the backlog pair up: no MULTI
\* inside an open block, no EXEC outside one, no block left open.
RECURSIVE WellFormed(_, _)
WellFormed(frames, open) ==
    IF frames = <<>> THEN ~open
    ELSE IF Head(frames) = MultiFrame THEN ~open /\ WellFormed(Tail(frames), TRUE)
    ELSE IF Head(frames) = ExecFrame THEN open /\ WellFormed(Tail(frames), FALSE)
    ELSE WellFormed(Tail(frames), open)

\* C9: when the server is a primary with a backlog at EXEC entry and a command
\* of the batch makes it a follower, at whatever place in the queue, what the
\* EXEC leaves in the backlog is well formed: every MULTI is closed by a later
\* EXEC and no EXEC stands without an open MULTI before it.
C9_BacklogWellFormed ==
    [][\A c \in Clients :
        (/\ last'.op = "EXEC" /\ last'.c = c /\ InMulti(c)
         /\ flags[c] \cap DirtyFlags = {}
         /\ ~masterhost /\ last'.env.repl_backlog /\ ~last'.env.loading
         /\ \E k \in 1..Len(mstate[c].commands) :
               mstate[c].commands[k] = SlaveofCmd(TRUE)) =>
            WellFormed(Backlogged(events'), FALSE)]_vars

\* The reply the k-th command of the queue q must give when every command
\* before it took effect and none was undone.
SlotReply(q, k, d) ==
    CASE q[k].name = "SET" -> "ok"
      [] q[k].name = "GET" ->
            IF \/ q[k].key \in dict[d]
               \/ \E j \in 1..(k - 1) : IsSet(q[j]) /\ q[j].key = q[k].key
            THEN "bulk" ELSE "nullbulk"
      [] q[k].name = "INCR" -> "ERR value is not an integer or out of range"
      [] OTHER -> "ok"

\* C10: an EXEC inside MULTI that passes the checks (no dirty flag, not barred
\* by the gate) announces an array as long as the queue, calls every queued
\* command once, in queue order and for this client only; slot k holds the
\* reply of command k, an error where the command failed at run time, the
\* commands after a failed one still run, and what the earlier ones wrote
\* stays in the store.
C10_DrainInOrder ==
    [][\A c \in Clients :
        (/\ last'.op = "EXEC" /\ last'.c = c /\ InMulti(c)
         /\ flags[c] \cap DirtyFlags = {}
         /\ ~GateBars(c, last'.env)) =>
            LET q == mstate[c].commands
                d == last'.env.db
            IN /\ reply'.type = "multibulk"
               /\ reply'.len = Len(q)
               /\ Called(events') = q
               /\ \A i \in 1..Len(events') :
                     events'[i].kind = "call" => events'[i].c = c /\ events'[i].db = d
               /\ reply'.elems = [k \in 1..Len(q) |-> SlotReply(q, k, d)]
               /\ dict'[d] = dict[d] \cup {q[k].key : k \in {i \in 1..Len(q) : IsSet(q[i])}}]_vars

\* An EXEC whose second command failed at run time: the read before it found
\* nothing, the write after it ran and is in the store.
C10_Witness ==
    /\ last.op = "EXEC"
    /\ reply.type = "multibulk" /\ reply.len = 3
    /\ reply.elems = <<"nullbulk", "ERR value is not an integer or out of range", "ok">>
    /\ 1 \in dict[0]

\* C11: an EXEC inside MULTI with no dirty flag is refused with the read-only
\* error, runs nothing and ends the transaction when the server is not loading,
\* has a primary, has follower writes disabled, the client is not the
\* replication link and the queue flags hold the write bit; when any of the
\* five is false the batch runs.
C11_ReadonlyGate ==
    [][\A c \in Clients :
        (last'.op = "EXEC" /\ last'.c = c /\ InMulti(c)
            /\ flags[c] \cap DirtyFlags = {}) =>
            IF /\ ~last'.env.loading /\ masterhost /\ last'.env.repl_slave_ro
               /\ CLIENT_MASTER \notin flags[c]
               /\ CMD_WRITE \in mstate[c].cmd_flags
            THEN /\ reply'.type \notin {"multibulk", "nullmultibulk", "ok"}
                 /\ reply' = ErrReadonlySlave
                 /\ Aborted(c)
                 /\ dict' = dict
            ELSE Ran(c)]_vars

\* The gate refused a transaction of two commands whose first is a read.
C11_Witness ==
    /\ last.op = "EXEC" /\ reply = ErrReadonlySlave
    /\ CLIENT_MASTER \notin last.flags
    /\ masterhost /\ last.env.repl_slave_ro /\ ~last.env.loading

\* cmd_flags of a multi state is the union of the flags of its commands.
Aggregated(m) == m.cmd_flags = UNION {CmdFlags(m.commands[k]) : k \in 1..Len(m.commands)}

\* C12 as stated: cmd_flags is the OR of the flags of the commands in the queue
\* in every state of a client: at every command boundary, and inside the drain
\* after a queued command was rewritten by its procedure.
C12_Original ==
    /\ \A c \in Clients : Aggregated(mstate[c])
    /\ \A i \in 1..Len(drain) : Aggregated(drain[i])

\* C12 as amended: that holds at every command boundary; inside the drain
\* cmd_flags stays what it was when the commands were queued, whatever the
\* commands were rewritten to.
C12_FlagAggregation ==
    /\ \A c \in Clients : Aggregated(mstate[c])
    /\ \A i \in 1..Len(drain) :
          /\ Len(drain[i].commands) = Len(Called(events))
          /\ drain[i].cmd_flags =
                UNION {CmdFlags(Called(events)[k]) : k \in 1..Len(Called(events))}

\* A queue holds a read and an admin command; and the last EXEC ran an EXPIRE
\* that its procedure rewrote into a DEL.
C12_Witness ==
    /\ last.op = "EXEC" /\ Len(drain) = 1
    /\ Called(events) = <<ExpireCmd(1)>>
    /\ drain[1].commands = <<DelCmd(1)>>

\* C13: a client with a queued command is in MULTI; a command is added to the
\* queue only for a client in MULTI; and whenever a client leaves MULTI (EXEC
\* that ran, EXEC cancelled, aborted or refused, DISCARD) its queue is empty.
C13_QueueImpliesMulti ==
    [][\A c \in Clients :
        /\ mstate'[c].commands # <<>> => CLIENT_MULTI \in flags'[c]
        /\ Len(mstate'[c].commands) > Len(mstate[c].commands) => InMulti(c)
        /\ (InMulti(c) /\ CLIENT_MULTI \notin flags'[c]) =>
              /\ mstate'[c] = [commands |-> <<>>, cmd_flags |-> {}]
              /\ last'.c = c]_vars

\* A client left MULTI by an EXEC that a touched watch cancelled, and its queue
\* is empty.
C13_Witness ==
    /\ last.op = "EXEC" /\ reply = nullmultibulk
    /\ {CLIENT_MULTI, CLIENT_DIRTY_CAS} \subseteq last.flags
    /\ CLIENT_MULTI \notin flags[last.c]
    /\ mstate[last.c].commands = <<>>

\* C14: no database's watch index holds a key with an empty client list; the
\* unwatch that takes the last watcher of a key away removes the key's entry
\* (and its key object) in the same command.
C14_EagerPruning ==
    \A d \in Dbs :
        /\ \A k \in DOMAIN db_watched_keys[d] : db_watched_keys[d][k] # <<>>
        /\ DOMAIN key_obj[d] = DOMAIN db_watched_keys[d]

\* An UNWATCH of a client that was watching a modified key has left every
\* index empty.
C14_Witness ==
    /\ last.op = "UNWATCH" /\ CLIENT_DIRTY_CAS \in last.flags
    /\ \A d \in Dbs : DOMAIN db_watched_keys[d] = {}
    /\ ~panic

\* The watch index after client c sends WATCH k in database d and then UNWATCH.
WatchUnwatch(c, d, k) == unwatchCommand(watchCommand(Cur, c, d, <<k>>), c)

\* C15 as stated: from any reachable state, for any client, database and key,
\* WATCH k then UNWATCH leaves every database's index (keys, client lists,
\* reference counts of the key objects) as it was before the WATCH.
C15_Original ==
    \A c \in Clients, d \in Dbs, k \in Keys :
        /\ WatchUnwatch(c, d, k).db_watched_keys = db_watched_keys
        /\ WatchUnwatch(c, d, k).key_obj = key_obj

\* C15 as amended: that holds for a client that watches no key before the
\* WATCH; UNWATCH drops every watch of the client, the earlier ones included.
C15_WatchUnwatchRoundTrip ==
    \A c \in Clients, d \in Dbs, k \in Keys :
        watched_keys[c] = <<>> =>
            /\ WatchUnwatch(c, d, k).db_watched_keys = db_watched_keys
            /\ WatchUnwatch(c, d, k).key_obj = key_obj
            /\ ~WatchUnwatch(c, d, k).panic

\* Client 1 has just sent UNWATCH and watches nothing; client 2 still watches
\* a key whose entry client 1 had created, so the entry's key object has lost
\* the reference of client 1.
C15_Witness ==
    /\ last.op = "UNWATCH" /\ last.c = 1 /\ watched_keys[1] = <<>>
    /\ \E d \in Dbs : \E k \in DOMAIN db_watched_keys[d] :
          /\ db_watched_keys[d][k] = <<2>>
          /\ key_obj[d][k] = [refcount |-> 1, owner |-> 0]

NoDuplicate(l) == \A i, j \in 1..Len(l) : l[i] = l[j] => i = j

\* WATCH k in database d by c, and what it makes, once and twice, of the state.
WatchOnce(c, d, k) == watchCommand(Cur, c, d, <<k>>)
WatchedOnce(s, c, d, k) ==
    /\ watchCommand(s, c, d, <<k>>) = s
    /\ InList(watched_keys[c], watchedKey(k, d)) =>
          /\ s.watched_keys = watched_keys
          /\ s.db_watched_keys = db_watched_keys
          /\ s.key_obj = key_obj
          /\ s.flags = flags
    /\ (~InMulti(c) /\ ~InList(watched_keys[c], watchedKey(k, d))) =>
          s.watched_keys[c] = Append(watched_keys[c], watchedKey(k, d))

\* C16: for a client that already watches (db, key), WATCH of that pair
\* changes nothing; for a client outside MULTI that does not, it appends one
\* entry, also when the client watches the same key name in another database;
\* WATCH sent twice gives the state WATCH sent once gives; so no watched list
\* holds a pair twice and no client list holds a client twice.
C16_WatchIdempotent ==
    /\ \A c \in Clients, d \in Dbs, k \in Keys :
          WatchedOnce(WatchOnce(c, d, k), c, d, k)
    /\ \A c \in Clients : NoDuplicate(watched_keys[c])
    /\ \A d \in Dbs : \A k \in DOMAIN db_watched_keys[d] :
          NoDuplicate(db_watched_keys[d][k])

\* A client that watches key 1 in database 1 and in database 0 has sent WATCH
\* in database 1 again.
C16_Witness ==
    /\ last.op = "WATCH" /\ last.env.db = 1 /\ reply = ok
    /\ watched_keys[last.c] = <<watchedKey(1, 1), watchedKey(1, 0)>>

\* What MULTI then DISCARD make of the state, for client c.
MultiDiscard(c) == discardCommand(multiCommand(Cur, c), c)

\* C17 as stated: for a client outside MULTI, MULTI then DISCARD leave its
\* in_multi, queue, queue flags, dirty_cas and dirty_exec as they were; only
\* its watches are gone.
C17_Original ==
    \A c \in Clients :
        ~InMulti(c) =>
            /\ MultiDiscard(c).flags[c] = flags[c]
            /\ MultiDiscard(c).mstate[c] = mstate[c]
            /\ MultiDiscard(c).watched_keys[c] = <<>>

\* C17 as amended: in_multi, the queue, the queue flags and dirty_exec are as
\* they were; the watches are gone and dirty_cas is cleared with them.
C17_MultiDiscardRoundTrip ==
    \A c \in Clients :
        ~InMulti(c) =>
            /\ MultiDiscard(c).flags[c] = flags[c] \ {CLIENT_DIRTY_CAS}
            /\ MultiDiscard(c).mstate[c] = mstate[c]
            /\ MultiDiscard(c).watched_keys[c] = <<>>
            /\ MultiDiscard(c).reply = ok
            /\ \A x \in Clients \ {c} :
                  /\ MultiDiscard(c).flags[x] = flags[x]
                  /\ MultiDiscard(c).mstate[x] = mstate[x]
                  /\ MultiDiscard(c).watched_keys[x] = watched_keys[x]

\* A DISCARD has ended the empty transaction of a client whose watched key had
\* been modified before it entered MULTI.
C17_Witness ==
    /\ last.op = "DISCARD" /\ reply = ok
    /\ CLIENT_DIRTY_CAS \in last.flags /\ ~rejected[last.c]
    /\ flags[last.c] \cap {CLIENT_MULTI, CLIENT_DIRTY_CAS, CLIENT_DIRTY_EXEC} = {}
    /\ watched_keys[last.c] = <<>>

\* The flush of database dbid (-1: all) finds a watched key of c in the store.
FlushHits(c, dbid) ==
    \E d \in Dbs, k \in Keys :
        /\ dbid = -1 \/ d = dbid
        /\ Indexed(c, d, k)
        /\ k \in dict[d]

\* C18: a flush sets dirty_cas on exactly the clients that watch a key of a
\* flushed database that is in the store when the flush starts, and changes
\* neither the index nor the watched lists; a client that is not flagged (and
\* has no rejected command) gets the array of replies from its next EXEC.
C18_FlushTouchesPresent ==
    [][\A c \in Clients :
        /\ last'.op = "FLUSH" =>
              /\ flags'[c] = IF FlushHits(c, last'.env.db)
                             THEN flags[c] \cup {CLIENT_DIRTY_CAS} ELSE flags[c]
              /\ UNCHANGED <<watched_keys, db_watched_keys, key_obj, mstate>>
        /\ (last'.op = "EXEC" /\ last'.c = c /\ InMulti(c)
               /\ flags[c] \cap DirtyFlags = {} /\ ~masterhost) =>
              reply'.type = "multibulk"]_vars

\* After FLUSHALL, client 1 watches a key and is not flagged while client 2 is.
C18_Witness ==
    /\ last.op = "FLUSH" /\ last.env.db = -1
    /\ watched_keys[1] # <<>> /\ CLIENT_DIRTY_CAS \notin flags[1]
    /\ CLIENT_DIRTY_CAS \in flags[2]

\* C19: a write of key k in database d, sent on its own, sets dirty_cas on
\* exactly the clients in the client list of k in d and changes nothing else of
\* the flags, the index and the watched lists; a read changes none of them, so
\* a client whose watched key was only read gets its batch run by EXEC.
C19_TouchPrecise ==
    [][(last'.op = "CALL" /\ Len(events') > 0) =>
          LET cmd == events'[1].cmd
              db == events'[1].db
          IN /\ UNCHANGED <<watched_keys, db_watched_keys, key_obj, mstate>>
             /\ cmd.name = "SET" =>
                   \A c \in Clients :
                      flags'[c] = IF Indexed(c, db, cmd.key)
                                  THEN flags[c] \cup {CLIENT_DIRTY_CAS} ELSE flags[c]
             /\ cmd.name = "GET" => UNCHANGED <<flags, dict, touched>>]_vars

\* A write of key 1 in database 0 flagged client 1, and left alone client 2,
\* which watches key 1 in database 1.
C19_Witness ==
    /\ last.op = "CALL" /\ last.c = 2
    /\ events # <<>> /\ events[1].cmd = SetCmd(1) /\ events[1].db = 0
    /\ watched_keys[1] = <<watchedKey(1, 0)>> /\ CLIENT_DIRTY_CAS \in flags[1]
    /\ watched_keys[2] = <<watchedKey(1, 1)>> /\ CLIENT_DIRTY_CAS \notin flags[2]

\* C20: UNWATCH, inside or outside MULTI, replies OK, removes every watch of
\* the client and clears its dirty_cas; in_multi, the queue, the queue flags
\* and dirty_exec stay as they are, and so does every other client.
C20_UnwatchKeepsTransaction ==
    [][\A c \in Clients :
        (last'.op = "UNWATCH" /\ last'.c = c) =>
            /\ reply' = ok
            /\ watched_keys'[c] = <<>>
            /\ NotIndexed(c)'
            /\ flags'[c] = flags[c] \ {CLIENT_DIRTY_CAS}
            /\ mstate' = mstate
            /\ \A x \in Clients \ {c} :
                  flags'[x] = flags[x] /\ watched_keys'[x] = watched_keys[x]]_vars

\* UNWATCH inside a MULTI that has a queued command and a rejected one, for a
\* client whose watched key had been modified.
C20_Witness ==
    /\ last.op = "UNWATCH"
    /\ {CLIENT_MULTI, CLIENT_DIRTY_CAS, CLIENT_DIRTY_EXEC} \subseteq last.flags
    /\ flags[last.c] = {CLIENT_MULTI, CLIENT_DIRTY_EXEC}
    /\ mstate[last.c].commands # <<>>

\* C21: at every command boundary a client with dirty_cas set watches at least
\* one key and a client with dirty_exec set is in MULTI; so no client that
\* neither watches a key nor is in MULTI carries a dirty flag.
C21_FlagStateCoupling ==
    \A c \in Clients :
        /\ CLIENT_DIRTY_CAS \in flags[c] => watched_keys[c] # <<>>
        /\ CLIENT_DIRTY_EXEC \in flags[c] => CLIENT_MULTI \in flags[c]
        /\ (watched_keys[c] = <<>> /\ CLIENT_MULTI \notin flags[c]) =>
              flags[c] \cap DirtyFlags = {}

\* A command was rejected inside the MULTI of a client whose watched key had
\* been modified: the client carries both dirty flags, watches and is in MULTI.
C21_Witness ==
    /\ last.op = "REJECT"
    /\ CLIENT_DIRTY_CAS \in last.flags
    /\ flags[last.c] = {CLIENT_MULTI, CLIENT_DIRTY_CAS, CLIENT_DIRTY_EXEC}
    /\ watched_keys[last.c] # <<>>

====
